---- MODULE Spec2Model ----
(***************************************************************************)
(* TropiC+ dashboard (app.py): the script that loads the workbook, builds   *)
(* the per-round aggregates, joins them into the overview table, filters    *)
(* it by the round slider and renders the dashboard, as a state machine     *)
(* whose steps are the script's statements in order.                        *)
(*                                                                          *)
(* A DataFrame is a sequence of rows; a row is a function from column names *)
(* to cells.  A numeric cell is a rational <<num, den>> in lowest terms     *)
(* (den > 0); the missing value (NaN) is the empty tuple.                   *)
(***************************************************************************)
EXTENDS Integers, Sequences, FiniteSets, TLC

\* ---------------------------------------------------------------- bounds
MaxRound == 3
MaxRows == 3
MaxHeaderLen == 5

\* ------------------------------------------------------------- rationals
NA == <<>>

isna(x) == x = NA

Abs(n) == IF n < 0 THEN 0 - n ELSE n

RECURSIVE GCD(_, _)
GCD(a, b) == IF b = 0 THEN a ELSE GCD(b, a % b)

\* n/d in lowest terms, d > 0
Rat(n, d) ==
    LET g == GCD(Abs(n), d)
    IN  IF n = 0 THEN <<0, 1>> ELSE <<n \div g, d \div g>>

Add(p, q) == Rat(p[1] * q[2] + q[1] * p[2], p[2] * q[2])

\* elementwise Series subtraction: NaN in either operand gives NaN
Sub(p, q) ==
    IF isna(p) \/ isna(q) THEN NA
    ELSE Rat(p[1] * q[2] - q[1] * p[2], p[2] * q[2])

\* numpy.around to an integer: round half to even, of the rational n/d
RoundHalfEven(n, d) ==
    LET fl == n \div d
        rm == n % d
    IN  IF 2 * rm < d THEN fl
        ELSE IF 2 * rm > d THEN fl + 1
        ELSE IF fl % 2 = 0 THEN fl ELSE fl + 1

\* (x * 100).round(2): NaN stays NaN
ScalePct(x) ==
    IF isna(x) THEN NA ELSE Rat(RoundHalfEven(x[1] * 10000, x[2]), 100)

\* x.round(2)
Round2(x) ==
    IF isna(x) THEN NA ELSE Rat(RoundHalfEven(x[1] * 100, x[2]), 100)

\* pct(x): None if missing, else round(float(x) * 100, 2)
pct(x) == ScalePct(x)

\* num(x): None if missing, else round(float(x), 2)
num(x) == Round2(x)

\* ------------------------------------------------- aggregation functions
RECURSIVE SumCells(_)
SumCells(cells) ==
    IF cells = <<>> THEN <<0, 1>>
    ELSE IF isna(Head(cells)) THEN SumCells(Tail(cells))
    ELSE Add(Head(cells), SumCells(Tail(cells)))

CountCells(cells) == Cardinality({i \in 1..Len(cells) : ~isna(cells[i])})

\* a mean that counts a missing value as a zero (not what pandas does)
MeanZeroFill(cells) ==
    IF cells = <<>> THEN NA
    ELSE LET s == SumCells(cells) IN Rat(s[1], s[2] * Len(cells))

\* groupby(...).mean(): skips NaN; NaN when the group has no value
Mean(cells) ==
    IF CountCells(cells) = 0 THEN NA
    ELSE LET s == SumCells(cells) IN Rat(s[1], s[2] * CountCells(cells))

\* groupby(...).sum(): skips NaN; 0 when the group has no value
Sum(cells) == SumCells(cells)

\* ------------------------------------------------------ DataFrame helpers
Range(s) == {s[i] : i \in 1..Len(s)}

RECURSIVE SortedSeq(_)
SortedSeq(S) ==
    IF S = {} THEN <<>>
    ELSE LET m == CHOOSE x \in S : \A y \in S : x <= y
         IN  <<m>> \o SortedSeq(S \ {m})

RoundsOf(df) == {df[i]["round"] : i \in 1..Len(df)}

\* the cells of column col in the rows of df whose round is r
Group(df, r, col) ==
    LET rows == SelectSeq(df, LAMBDA row : row["round"] = r)
    IN  [i \in 1..Len(rows) |-> rows[i][col]]

SetMax(S) == CHOOSE x \in S : \A y \in S : y <= x
SetMin(S) == CHOOSE x \in S : \A y \in S : x <= y

\* ------------------------------------------------------- load_excel.norm
\* A column label is a sequence of one-character strings.
Whitespace == {" ", "\n", "\r", "\t"}

Lower(c) == IF c = "A" THEN "a" ELSE IF c = "B" THEN "b" ELSE c

\* str.lower()
lower(s) == [i \in 1..Len(s) |-> Lower(s[i])]

RECURSIVE lstrip(_)
lstrip(s) ==
    IF s # <<>> /\ Head(s) \in Whitespace THEN lstrip(Tail(s)) ELSE s

RECURSIVE rstrip(_)
rstrip(s) ==
    IF s # <<>> /\ s[Len(s)] \in Whitespace
    THEN rstrip(SubSeq(s, 1, Len(s) - 1)) ELSE s

\* str.strip()
strip(s) == rstrip(lstrip(s))

\* str.replace(old, new): one pass, left to right, over non-overlapping
\* occurrences of old; the text put in is not scanned again
RECURSIVE replace(_, _, _)
replace(s, old, new) ==
    IF Len(s) < Len(old) THEN s
    ELSE IF SubSeq(s, 1, Len(old)) = old
         THEN new \o replace(SubSeq(s, Len(old) + 1, Len(s)), old, new)
         ELSE <<Head(s)>> \o replace(Tail(s), old, new)

norm(label) ==
    replace(
      replace(
        replace(
          replace(lower(strip(label)), <<"\n">>, <<" ">>),
          <<"\r">>, <<" ">>),
        <<" ", " ">>, <<" ">>),
      <<" ">>, <<"_">>)

\* ------------------------------------------- Series.str.contains(case=False)
\* A name is a sequence of words; the pattern matches when its words occur
\* in the name one after the other, letter case ignored.  A missing name
\* (na=False) does not match.
LowerWord(w) ==
    IF w = "Raw" THEN "raw"
    ELSE IF w = "Materials" THEN "materials"
    ELSE IF w = "Finished" THEN "finished"
    ELSE IF w = "Goods" THEN "goods"
    ELSE IF w = "Vitamin" THEN "vitamin"
    ELSE w

contains(name, pat) ==
    /\ ~isna(name)
    /\ \E k \in 0..(Len(name) - Len(pat)) :
           \A j \in 1..Len(pat) : LowerWord(name[k + j]) = LowerWord(pat[j])

\* df[df[col].str.contains(pat, case=False, na=False)]
Filter(df, col, pat) == SelectSeq(df, LAMBDA row : contains(row[col], pat))

\* ---------------------------------------------------------------- merge
NARow(cols) == [c \in cols |-> NA]

\* an inner join: left rows without a match are dropped (not what the
\* script asks for)
RECURSIVE MergeInner(_, _, _)
MergeInner(left, right, cols) ==
    IF left = <<>> THEN <<>>
    ELSE LET l == Head(left)
             m == SelectSeq(right, LAMBDA row : row["round"] = l["round"])
         IN  [i \in 1..Len(m) |-> l @@ [c \in cols |-> m[i][c]]]
             \o MergeInner(Tail(left), right, cols)

\* a left join that writes 0 where right has no row of the round (not what
\* the script asks for)
RECURSIVE MergeZeroFill(_, _, _)
MergeZeroFill(left, right, cols) ==
    IF left = <<>> THEN <<>>
    ELSE LET l == Head(left)
             m == SelectSeq(right, LAMBDA row : row["round"] = l["round"])
         IN  (IF m = <<>> THEN <<l @@ [c \in cols |-> <<0, 1>>]>>
              ELSE [i \in 1..Len(m) |-> l @@ [c \in cols |-> m[i][c]]])
             \o MergeZeroFill(Tail(left), right, cols)

\* left.merge(right, on="round", how="left"); cols are right's other columns.
\* Each left row, in order, is paired with every right row of its round, or
\* with missing values when right has none.
RECURSIVE Merge(_, _, _)
Merge(left, right, cols) ==
    IF left = <<>> THEN <<>>
    ELSE LET l == Head(left)
             m == SelectSeq(right, LAMBDA row : row["round"] = l["round"])
         IN  (IF m = <<>> THEN <<l @@ NARow(cols)>>
              ELSE [i \in 1..Len(m) |-> l @@ [c \in cols |-> m[i][c]]])
             \o Merge(Tail(left), right, cols)

\* --------------------------------------------------- per-round aggregates
\* groupby("round"): one output row per distinct round, sorted by round
GroupKeys(df) == SortedSeq(RoundsOf(df))

prod_agg_columns ==
    {"avg_service_pct", "fg_stock_weeks_avg", "mape_pct",
     "product_obsol_pct_avg", "realized_revenue", "gross_margin_per_week",
     "cogs"}

\* prod.groupby("round").agg(...).reset_index(), then the cogs column
ProdAgg(prod) ==
    LET keys == GroupKeys(prod)
        agg(r) ==
            [avg_service_pct       |-> Mean(Group(prod, r, "service_level_(pieces)")),
             fg_stock_weeks_avg    |-> Mean(Group(prod, r, "stock_(weeks)")),
             mape_pct              |-> Mean(Group(prod, r, "forecast_error_(mape)")),
             product_obsol_pct_avg |-> Mean(Group(prod, r, "obsoletes_(%)")),
             realized_revenue      |-> Sum(Group(prod, r, "demand_per_week_(value)")),
             gross_margin_per_week |-> Sum(Group(prod, r, "gross_margin_per_week"))]
    IN  [i \in 1..Len(keys) |->
            ("round" :> keys[i]) @@ agg(keys[i]) @@
            ("cogs" :> Sub(agg(keys[i]).realized_revenue,
                           agg(keys[i]).gross_margin_per_week))]

comp_agg_columns ==
    {"component_availability_pct_avg", "component_stock_weeks_avg",
     "component_obsolescence_pct_avg", "component_delivery_reliability_pct_avg"}

\* comp.groupby("round").agg(...).reset_index()
CompAgg(comp) ==
    LET keys == GroupKeys(comp)
    IN  [i \in 1..Len(keys) |->
            [round |-> keys[i],
             component_availability_pct_avg |->
                 Mean(Group(comp, keys[i], "component_availability_(%)")),
             component_stock_weeks_avg |->
                 Mean(Group(comp, keys[i], "stock_(weeks)")),
             component_obsolescence_pct_avg |->
                 Mean(Group(comp, keys[i], "obsoletes_(%)")),
             component_delivery_reliability_pct_avg |->
                 Mean(Group(comp, keys[i], "delivery_reliability_(%)"))]]

\* df.groupby("round")[col].mean().reset_index().rename(columns={col: out})
MeanByRound(df, col, out) ==
    LET keys == GroupKeys(df)
    IN  [i \in 1..Len(keys) |->
            ("round" :> keys[i]) @@ (out :> Mean(Group(df, keys[i], col)))]

VitcObsol(comp) ==
    MeanByRound(Filter(comp, "component", <<"vitamin">>),
                "obsoletes_(%)", "obsoletes_(%)")

Inbound(wh) ==
    MeanByRound(Filter(wh, "warehouse", <<"raw", "materials">>),
                "cube_utilization_(%)", "inbound_util")

Outbound(wh) ==
    MeanByRound(Filter(wh, "warehouse", <<"finished", "goods">>),
                "cube_utilization_(%)", "outbound_util")

Ppa(prod) == MeanByRound(prod, "production_plan_adherence_(%)", "ppa")

\* --------------------------------------------------------- pivot tables
\* Component names in their sort order (the order of the pivot's columns).
ComponentNames ==
    << <<"Orange">>, <<"PET">>, <<"Pack">>, <<"Vitamin", "C">> >>

SortedNames(S) == SelectSeq(ComponentNames, LAMBDA n : n \in S)

EmptyPivot == [index |-> <<>>, columns |-> <<>>, cell |-> <<>>]

\* comp.pivot_table(index="round", columns="component", values=values,
\*                  aggfunc="mean").reset_index()
\* pivot_table groups by (round, component), takes the mean, drops the
\* groups whose mean is NaN (dropna=True) and only then unstacks: the index
\* and the columns are those of the groups that are left.
PivotTable(comp, values) ==
    LET pairs == {<<comp[i]["round"], comp[i]["component"]>> : i \in 1..Len(comp)}
        cells(p) ==
            LET rows == SelectSeq(comp, LAMBDA row :
                            row["round"] = p[1] /\ row["component"] = p[2])
            IN  [i \in 1..Len(rows) |-> rows[i][values]]
        kept == {p \in pairs : ~isna(Mean(cells(p)))}
        index == SortedSeq({p[1] : p \in kept})
        columns == SortedNames({p[2] : p \in kept})
    IN  [index |-> index,
         columns |-> columns,
         cell |-> [p \in Range(index) \X Range(columns) |->
                      IF p \in kept THEN Mean(cells(p)) ELSE NA]]

\* DataFrame.empty of a pivot after reset_index (it always has the round
\* column, so it is empty when it has no row)
PivotEmpty(pv) == pv.index = <<>>

\* comp_list[:3]
FirstThree(s) == SubSeq(s, 1, IF Len(s) < 3 THEN Len(s) ELSE 3)

\* ------------------------------------------------------------- overview
\* pd.DataFrame({"round": sorted(prod_agg["round"].unique())})
RoundsDf(pa) ==
    LET keys == SortedSeq(RoundsOf(pa))
    IN  [i \in 1..Len(keys) |-> [round |-> keys[i]]]

\* the round index and the frame after each of the five merges, in order
OverviewSteps(rounds_df, pa, ca, inb, outb, pp) ==
    LET m1 == Merge(rounds_df, pa, prod_agg_columns)
        m2 == Merge(m1, ca, comp_agg_columns)
        m3 == Merge(m2, inb, {"inbound_util"})
        m4 == Merge(m3, outb, {"outbound_util"})
        m5 == Merge(m4, pp, {"ppa"})
    IN  <<rounds_df, m1, m2, m3, m4, m5>>

Overview(rounds_df, pa, ca, inb, outb, pp) ==
    OverviewSteps(rounds_df, pa, ca, inb, outb, pp)[6]

\* ------------------------------------------------- filter, KPIs, explorer
\* overview[(overview["round"] >= lo) & (overview["round"] <= hi)].copy()
RangeFilter(ovw, lo, hi) ==
    SelectSeq(ovw, LAMBDA row : row["round"] >= lo /\ row["round"] <= hi)

\* ov[ov["round"] == latest].iloc[0].to_dict()
FirstWithRound(ovv, r) == Head(SelectSeq(ovv, LAMBDA row : row["round"] = r))

show_cols ==
    {"round", "avg_service_pct", "component_availability_pct_avg",
     "fg_stock_weeks_avg", "mape_pct", "product_obsol_pct_avg",
     "realized_revenue", "cogs", "gross_margin_per_week",
     "inbound_util", "outbound_util", "ppa"}

pct_cols ==
    {"avg_service_pct", "component_availability_pct_avg", "mape_pct",
     "product_obsol_pct_avg", "inbound_util", "outbound_util", "ppa"}

\* tidy = ov[show_cols].copy(); tidy[c] = (tidy[c] * 100).round(2)
Tidy(ovv) ==
    [i \in 1..Len(ovv) |->
        [c \in show_cols |->
            IF c \in pct_cols THEN ScalePct(ovv[i][c]) ELSE ovv[i][c]]]

\* the rescaling done on ov itself instead of on a copy
ExplorerInPlace(ovv) ==
    [tidy |-> Tidy(ovv),
     ov   |-> [i \in 1..Len(ovv) |->
                  [c \in DOMAIN ovv[i] |->
                      IF c \in pct_cols THEN ScalePct(ovv[i][c]) ELSE ovv[i][c]]]]

\* the Data Explorer block: what tidy and ov are after it
Explorer(ovv) == [tidy |-> Tidy(ovv), ov |-> ovv]

\* ------------------------------------------------------------ load_excel
RequiredSheets == {"Product", "Component", "Warehouse, Salesarea"}
OptionalSheets == {"Customer", "Product - Warehouse"}
AllSheets == RequiredSheets \cup OptionalSheets

None == [ok |-> FALSE, rows |-> <<>>]

\* get_sheet(name): the sheet's table, or None when the workbook has no
\* sheet of that name
get_sheet(sheet_names, wb, name) ==
    IF name \in sheet_names THEN [ok |-> TRUE, rows |-> wb[name]] ELSE None

load_excel(sheet_names, wb) ==
    [product           |-> get_sheet(sheet_names, wb, "Product"),
     component         |-> get_sheet(sheet_names, wb, "Component"),
     warehouse         |-> get_sheet(sheet_names, wb, "Warehouse, Salesarea"),
     customer          |-> get_sheet(sheet_names, wb, "Customer"),
     product_warehouse |-> get_sheet(sheet_names, wb, "Product - Warehouse")]

\* a check that looks at the Product sheet alone
ProductMissing(d) == ~d.product.ok

\* prod is None or comp is None or wh is None
RequiredMissing(d) == ~d.product.ok \/ ~d.component.ok \/ ~d.warehouse.ok

\* ------------------------------------------------------ workbook contents
\* The rows the sheets are filled with.  A row is picked by its round and a
\* profile number; the profiles differ in which cells are missing.
ProductProfiles ==
    << [sl |-> <<9, 10>>,  st |-> <<2, 1>>, fe |-> <<1, 3>>,  ob |-> <<1, 20>>,
        dm |-> <<100, 1>>, gm |-> <<40, 1>>, pa |-> <<4, 5>>],
       [sl |-> <<23, 25>>, st |-> NA,       fe |-> <<3, 10>>, ob |-> NA,
        dm |-> <<80, 1>>,  gm |-> NA,        pa |-> NA],
       [sl |-> <<19, 20>>, st |-> <<3, 1>>, fe |-> <<1, 10>>, ob |-> NA,
        dm |-> NA,         gm |-> <<30, 1>>, pa |-> <<9, 10>>],
       [sl |-> NA,         st |-> <<5, 1>>, fe |-> NA,        ob |-> <<1, 10>>,
        dm |-> <<200, 1>>, gm |-> <<90, 1>>, pa |-> <<3, 4>>] >>

ProductRow(r, p) ==
    LET v == ProductProfiles[p]
    IN  ("round" :> r) @@
        ("service_level_(pieces)" :> v.sl) @@
        ("stock_(weeks)" :> v.st) @@
        ("forecast_error_(mape)" :> v.fe) @@
        ("obsoletes_(%)" :> v.ob) @@
        ("demand_per_week_(value)" :> v.dm) @@
        ("gross_margin_per_week" :> v.gm) @@
        ("production_plan_adherence_(%)" :> v.pa)

ComponentProfiles ==
    << [av |-> <<22, 25>>,   st |-> <<4, 1>>, ob |-> <<1, 50>>, dr |-> <<9, 10>>],
       [av |-> <<91, 100>>,  st |-> <<6, 1>>, ob |-> NA,        dr |-> NA],
       [av |-> <<3, 4>>,     st |-> NA,       ob |-> NA,        dr |-> <<4, 5>>],
       [av |-> NA,           st |-> <<5, 1>>, ob |-> <<1, 25>>, dr |-> NA] >>

\* profile q: component name number ((q - 1) % 4) + 1, values ((q - 1) \div 4) + 1
ComponentRow(r, q) ==
    LET v == ComponentProfiles[((q - 1) \div 4) + 1]
    IN  ("round" :> r) @@
        ("component" :> ComponentNames[((q - 1) % 4) + 1]) @@
        ("component_availability_(%)" :> v.av) @@
        ("stock_(weeks)" :> v.st) @@
        ("obsoletes_(%)" :> v.ob) @@
        ("delivery_reliability_(%)" :> v.dr)

WarehouseProfiles ==
    << [wh |-> <<"Raw", "materials", "warehouse">>,   cu |-> <<17, 20>>],
       [wh |-> <<"raw", "materials", "warehouse">>,   cu |-> NA],
       [wh |-> <<"Raw", "Materials", "Warehouse">>,   cu |-> <<7, 10>>],
       [wh |-> <<"Finished", "goods", "warehouse">>,  cu |-> <<4, 5>>],
       [wh |-> <<"finished", "goods", "warehouse">>,  cu |-> NA],
       [wh |-> <<"Finished", "Goods", "Warehouse">>,  cu |-> <<9, 10>>],
       [wh |-> <<"Sales", "area">>,                   cu |-> <<1, 2>>],
       [wh |-> NA,                                    cu |-> <<3, 5>>] >>

WarehouseRow(r, w) ==
    ("round" :> r) @@
    ("warehouse" :> WarehouseProfiles[w].wh) @@
    ("cube_utilization_(%)" :> WarehouseProfiles[w].cu)

\* A shape lists the <<round, profile>> pairs of a sheet's rows.  Shapes are
\* enumerated in sorted order only: no result of the script depends on the
\* order of a sheet's rows.
PairLeq(a, b) == a[1] < b[1] \/ (a[1] = b[1] /\ a[2] <= b[2])

Shapes(E, n) ==
    UNION {{sh \in [1..k -> E] : \A i \in 1..(k - 1) : PairLeq(sh[i], sh[i + 1])}
           : k \in 0..n}

ProductTable(sh) == [i \in 1..Len(sh) |-> ProductRow(sh[i][1], sh[i][2])]
ComponentTable(sh) == [i \in 1..Len(sh) |-> ComponentRow(sh[i][1], sh[i][2])]
WarehouseTable(sh) == [i \in 1..Len(sh) |-> WarehouseRow(sh[i][1], sh[i][2])]

Rounds == 1..MaxRound

ProfileOfRound(r) == ((r - 1) % 4) + 1

Workbook(sheet_names, pt, ct, wt) ==
    [n \in AllSheets |->
        IF n \notin sheet_names THEN <<>>
        ELSE IF n = "Product" THEN pt
        ELSE IF n = "Component" THEN ct
        ELSE IF n = "Warehouse, Salesarea" THEN wt
        ELSE <<>>]

\* Product rounds 1-3, Component rounds 1-2, one row each
ScenarioProduct == ProductTable(<<<<1, 1>>, <<2, 2>>, <<3, 3>>>>)
ScenarioComponent == ComponentTable(<<<<1, 1>>, <<2, 5>>>>)
ScenarioWarehouse == WarehouseTable(<<<<1, 1>>, <<1, 4>>, <<2, 7>>>>)

\* ----------------------------------------------------------------- state
VARIABLES
    pc,           \* the statement block the script is at
    exc,          \* the exception that ended the script, "" if none
    xl,           \* the sheet names of the workbook (xl.sheet_names)
    book,         \* the rows of each sheet of the workbook
    label,        \* a column label as written in the workbook
    columns,      \* the labels of the loaded sheets after norm
    dfs,          \* what load_excel returned
    prod_agg, comp_agg, vitc_obsol, weeks_pivot, avail_pivot,
    inbound, outbound, ppa,
    overview,
    sel,          \* the slider's value (lo, hi)
    ov,           \* overview[mask].copy()
    latest, ov_latest,
    kpi,          \* the values on the KPI cards
    tidy,         \* the table shown and exported by the Data Explorer
    rendered      \* the page elements drawn so far

vars == <<pc, exc, xl, book, label, columns, dfs, prod_agg, comp_agg,
          vitc_obsol, weeks_pivot, avail_pivot, inbound, outbound, ppa,
          overview, sel, ov, latest, ov_latest, kpi, tidy, rendered>>

data == <<xl, book, label>>
aggregates == <<prod_agg, comp_agg, vitc_obsol, weeks_pivot, avail_pivot,
                inbound, outbound, ppa>>

\* The state when the script reaches load_excel: the page is configured and
\* the style sheet written (lines 16-67), nothing is computed yet.
InitWith(sheet_names, pt, ct, wt, lbl) ==
    /\ pc = "start"
    /\ exc = ""
    /\ xl = sheet_names
    /\ book = Workbook(sheet_names, pt, ct, wt)
    /\ label = lbl
    /\ columns = <<>>
    /\ dfs = [product |-> None, component |-> None, warehouse |-> None,
              customer |-> None, product_warehouse |-> None]
    /\ prod_agg = <<>> /\ comp_agg = <<>> /\ vitc_obsol = <<>>
    /\ weeks_pivot = EmptyPivot /\ avail_pivot = EmptyPivot
    /\ inbound = <<>> /\ outbound = <<>> /\ ppa = <<>>
    /\ overview = <<>>
    /\ sel = <<0, 0>>
    /\ ov = <<>>
    /\ latest = 0
    /\ ov_latest = <<>>
    /\ kpi = <<>>
    /\ tidy = <<>>
    /\ rendered = {"css"}

\* --------------------------------------------------------------- actions
\* line 180: dfs = load_excel(DATA_PATH); every sheet read is normalised
LoadExcel ==
    /\ pc = "start"
    /\ dfs' = load_excel(xl, book)
    /\ columns' = IF xl \cap AllSheets # {} THEN <<norm(label)>> ELSE <<>>
    /\ pc' = "loaded"
    /\ UNCHANGED <<exc, data, aggregates, overview, sel, ov, latest,
                   ov_latest, kpi, tidy, rendered>>

\* lines 185-187: st.error(...); st.stop()
Halt ==
    /\ pc = "loaded"
    /\ RequiredMissing(dfs)
    /\ rendered' = rendered \cup {"error"}
    /\ pc' = "stopped"
    /\ UNCHANGED <<exc, data, columns, dfs, aggregates, overview, sel, ov,
                   latest, ov_latest, kpi, tidy>>

\* lines 189-223: the per-round aggregates and the pivots
Aggregate ==
    /\ pc = "loaded"
    /\ ~RequiredMissing(dfs)
    /\ prod_agg' = ProdAgg(dfs.product.rows)
    /\ comp_agg' = CompAgg(dfs.component.rows)
    /\ vitc_obsol' = VitcObsol(dfs.component.rows)
    /\ weeks_pivot' = PivotTable(dfs.component.rows, "stock_(weeks)")
    /\ avail_pivot' = PivotTable(dfs.component.rows, "component_availability_(%)")
    /\ inbound' = Inbound(dfs.warehouse.rows)
    /\ outbound' = Outbound(dfs.warehouse.rows)
    /\ ppa' = Ppa(dfs.product.rows)
    /\ pc' = "aggregated"
    /\ UNCHANGED <<exc, data, columns, dfs, overview, sel, ov, latest,
                   ov_latest, kpi, tidy, rendered>>

\* lines 225-234: rounds_df and the left joins
Join ==
    /\ pc = "aggregated"
    /\ overview' = Overview(RoundsDf(prod_agg), prod_agg, comp_agg,
                            inbound, outbound, ppa)
    /\ pc' = "joined"
    /\ UNCHANGED <<exc, data, columns, dfs, aggregates, sel, ov, latest,
                   ov_latest, kpi, tidy, rendered>>

\* lines 239-244: the sidebar, the round slider and the filtered view.
\* int(overview["round"].min()) raises ValueError on an empty overview (the
\* minimum is NaN).  The slider lets the user pick any lo <= hi between the
\* smallest and the largest round.
Slider ==
    /\ pc = "joined"
    /\ IF overview = <<>>
       THEN /\ pc' = "crashed"
            /\ exc' = "ValueError"
            /\ rendered' = rendered \cup {"sidebar"}
            /\ UNCHANGED <<sel, ov>>
       ELSE LET min_r == SetMin(RoundsOf(overview))
                max_r == SetMax(RoundsOf(overview))
            IN  \E lo \in min_r..max_r : \E hi \in lo..max_r :
                    /\ sel' = <<lo, hi>>
                    /\ ov' = RangeFilter(overview, lo, hi)
                    /\ rendered' = rendered \cup {"sidebar"}
                    /\ pc' = "filtered"
                    /\ UNCHANGED exc
    /\ UNCHANGED <<data, columns, dfs, aggregates, overview, latest,
                   ov_latest, kpi, tidy>>

\* lines 246-247: int(ov["round"].max()) raises ValueError on an empty ov
Latest ==
    /\ pc = "filtered"
    /\ IF ov = <<>>
       THEN /\ pc' = "crashed"
            /\ exc' = "ValueError"
            /\ UNCHANGED <<latest, ov_latest>>
       ELSE /\ latest' = SetMax(RoundsOf(ov))
            /\ ov_latest' = FirstWithRound(ov, SetMax(RoundsOf(ov)))
            /\ pc' = "latest"
            /\ UNCHANGED exc
    /\ UNCHANGED <<data, columns, dfs, aggregates, overview, sel, ov, kpi,
                   tidy, rendered>>

\* lines 252-318: header, KPI cards, Overview and Purchase charts
RenderTop ==
    /\ pc = "latest"
    /\ kpi' = [service      |-> pct(ov_latest["avg_service_pct"]),
               availability |-> pct(ov_latest["component_availability_pct_avg"]),
               fg_stock     |-> num(ov_latest["fg_stock_weeks_avg"]),
               ppa          |-> pct(ov_latest["ppa"]),
               gross_margin |-> num(ov_latest["gross_margin_per_week"])]
    /\ rendered' = rendered \cup
           {"header", "kpi_cards", "overview_charts", "purchase_charts"}
    /\ pc' = "top"
    /\ UNCHANGED <<exc, data, columns, dfs, aggregates, overview, sel, ov,
                   latest, ov_latest, tidy>>

\* lines 320-341: the per-component tabs and the Vitamin C chart.
\* line_chart(avail_pivot, "round", [c]) reads avail_pivot[c] and raises
\* KeyError when avail_pivot has no column c; the stock tabs are drawn
\* before the availability tabs.
ComponentTabs ==
    /\ pc = "top"
    /\ LET comp_list == FirstThree(weeks_pivot.columns)
           vitc == IF vitc_obsol # <<>> THEN {"vitc_chart"} ELSE {}
       IN  IF PivotEmpty(weeks_pivot)
           THEN /\ rendered' = rendered \cup vitc
                /\ pc' = "tabs"
                /\ UNCHANGED exc
           ELSE IF Range(comp_list) \subseteq Range(avail_pivot.columns)
           THEN /\ rendered' = rendered \cup
                       {"stock_weeks_tabs", "availability_tabs"} \cup vitc
                /\ pc' = "tabs"
                /\ UNCHANGED exc
           ELSE /\ rendered' = rendered \cup {"stock_weeks_tabs"}
                /\ pc' = "crashed"
                /\ exc' = "KeyError"
    /\ UNCHANGED <<data, columns, dfs, aggregates, overview, sel, ov, latest,
                   ov_latest, kpi, tidy>>

\* lines 343-425: Sales, Supply Chain, Operations and Impact Matrix
RenderRest ==
    /\ pc = "tabs"
    /\ kpi' = kpi @@
              [inbound  |-> pct(ov_latest["inbound_util"]),
               outbound |-> pct(ov_latest["outbound_util"]),
               plan     |-> pct(ov_latest["ppa"])]
    /\ rendered' = rendered \cup
           {"sales_charts", "supply_chain_charts", "operations_kpis",
            "operations_charts", "impact_matrix"}
    /\ pc' = "rest"
    /\ UNCHANGED <<exc, data, columns, dfs, aggregates, overview, sel, ov,
                   latest, ov_latest, tidy>>

\* lines 427-458: the per-round KPI table, the CSV download and the footer
DataExplorer ==
    /\ pc = "rest"
    /\ tidy' = Explorer(ov).tidy
    /\ ov' = Explorer(ov).ov
    /\ rendered' = rendered \cup {"kpi_table", "download", "footer"}
    /\ pc' = "done"
    /\ UNCHANGED <<exc, data, columns, dfs, aggregates, overview, sel,
                   latest, ov_latest, kpi>>

Next ==
    \/ LoadExcel
    \/ Halt
    \/ Aggregate
    \/ Join
    \/ Slider
    \/ Latest
    \/ RenderTop
    \/ ComponentTabs
    \/ RenderRest
    \/ DataExplorer

\* ------------------------------------------------------- specifications
\* Sheet sets other than the full workbook.
OtherSheetSets ==
    {RequiredSheets, RequiredSheets \cup {"Customer"},
     AllSheets \ {"Product"}, AllSheets \ {"Component"},
     AllSheets \ {"Warehouse, Salesarea"}, OptionalSheets, {}}

PlainLabel == <<" ", "A", " ", "b", "\n">>

InitSheets ==
    \E sn \in OtherSheetSets :
        InitWith(sn, ScenarioProduct, ScenarioComponent, ScenarioWarehouse,
                 PlainLabel)

\* Spec: the rounds of the three sheets vary independently of one another.
\* Product has up to MaxRows rows over any rounds; Component has one row for
\* each round of any set of rounds; Warehouse has raw-materials rows up to a
\* round k and finished-goods rows from k on.
RoundShapes ==
    {[i \in 1..Len(sh) |-> <<sh[i][1], ProfileOfRound(sh[i][1])>>]
        : sh \in Shapes(Rounds \X {1}, MaxRows)}

SubsetShapes ==
    {LET rs == SortedSeq(S)
     IN  [i \in 1..Len(rs) |->
             <<rs[i], 4 * (ProfileOfRound(rs[i]) - 1) + ProfileOfRound(rs[i])>>]
        : S \in SUBSET Rounds}

SplitShape(k) ==
    [i \in 1..k |-> <<i, 1>>] \o [i \in 1..(MaxRound + 1 - k) |-> <<k + i - 1, 4>>]

Init ==
    \/ InitSheets
    \/ \E ps \in RoundShapes, cs \in SubsetShapes, k \in 1..MaxRound :
           InitWith(AllSheets, ProductTable(ps), ComponentTable(cs),
                    WarehouseTable(SplitShape(k)), PlainLabel)

Spec == Init /\ [][Next]_vars

\* SpecValues: the cells vary.  One shape of up to MaxRows rows, over any
\* rounds and any of the four value profiles, fills the three sheets: the
\* Product rows, Component rows of one component, and a raw-materials and a
\* finished-goods Warehouse row for each entry.
ValueShapes == Shapes(Rounds \X (1..4), MaxRows)

RawOf == <<1, 3, 7, 2>>
FinOf == <<4, 5, 6, 8>>

InitValues ==
    \/ InitSheets
    \/ \E sh \in ValueShapes :
           InitWith(AllSheets,
                    ProductTable(sh),
                    ComponentTable([i \in 1..Len(sh) |->
                                       <<sh[i][1], 4 * (sh[i][2] - 1) + 1>>]),
                    WarehouseTable([i \in 1..Len(sh) |->
                                       <<sh[i][1], RawOf[sh[i][2]]>>]
                                   \o [i \in 1..Len(sh) |->
                                       <<sh[i][1], FinOf[sh[i][2]]>>]),
                    PlainLabel)

SpecValues == InitValues /\ [][Next]_vars

\* SpecPivot: the Component sheet varies: up to MaxRows rows over the rounds
\* 1 and 2, any component name and any value profile.
PivotShapes == Shapes((1..2) \X (1..16), MaxRows)

FourComponents == <<<<1, 1>>, <<1, 2>>, <<1, 3>>, <<1, 16>>>>

InitPivot ==
    \/ InitSheets
    \/ InitWith(AllSheets, ProductTable(<<<<1, 1>>, <<2, 2>>>>),
                ComponentTable(FourComponents), ScenarioWarehouse, PlainLabel)
    \/ \E cs \in PivotShapes :
           InitWith(AllSheets, ProductTable(<<<<1, 1>>, <<2, 2>>>>),
                    ComponentTable(cs), ScenarioWarehouse, PlainLabel)

SpecPivot == InitPivot /\ [][Next]_vars

\* SpecNorm: the column label varies over the texts of up to MaxHeaderLen
\* characters made of two letters, the space, the newline and the carriage
\* return.
LabelChars == {"A", "b", " ", "\n", "\r"}

Labels == UNION {[1..k -> LabelChars] : k \in 0..MaxHeaderLen}

InitNorm ==
    \/ InitSheets
    \/ \E lbl \in Labels :
           InitWith(AllSheets, ScenarioProduct, ScenarioComponent,
                    ScenarioWarehouse, lbl)

SpecNorm == InitNorm /\ [][Next]_vars

\* ================================================================ claims
ProductSheet == book["Product"]
ComponentSheet == book["Component"]
WarehouseSheet == book["Warehouse, Salesarea"]

Aggregated == pc \notin {"start", "loaded", "stopped"}
HasOverview == pc \notin {"start", "loaded", "stopped", "aggregated"}
HasView == pc \in {"filtered", "latest", "top", "tabs", "rest", "done"}

RoundColumn(df) == [i \in 1..Len(df) |-> df[i]["round"]]
RowsOfRound(df, r) == {i \in 1..Len(df) : df[i]["round"] = r}

\* C1: once the overview is built it has exactly one row for each distinct
\* round of the Product sheet and no other row, and each of the five merges
\* leaves the rounds of the frame it is applied to as they were (no row
\* removed, none duplicated), whatever the Component and Warehouse rounds.
C1_OneRowPerProductRound ==
    HasOverview =>
        LET steps == OverviewSteps(RoundsDf(prod_agg), prod_agg, comp_agg,
                                   inbound, outbound, ppa)
        IN  /\ RoundsOf(overview) = RoundsOf(ProductSheet)
            /\ \A r \in RoundsOf(ProductSheet) :
                   Cardinality(RowsOfRound(overview, r)) = 1
            /\ \A k \in 1..5 : RoundColumn(steps[k + 1]) = RoundColumn(steps[k])
            /\ RoundColumn(overview) = RoundColumn(steps[1])

\* the overview is built from a Product sheet with two rows of one round and
\* a round that neither Component nor the raw-materials rows have
C1_Witness ==
    /\ pc = "joined"
    /\ Len(overview) >= 2
    /\ \E r \in RoundsOf(ProductSheet) :
           Cardinality(RowsOfRound(ProductSheet, r)) >= 2
    /\ \E r \in RoundsOf(ProductSheet) :
           r \notin RoundsOf(comp_agg) /\ r \notin RoundsOf(inbound)
    /\ \E r \in RoundsOf(ComponentSheet) : r \notin RoundsOf(ProductSheet)

\* C4: a required sheet that the workbook lacks is returned as None, and in
\* such a run the script never gets past the check: nothing is aggregated,
\* joined, pivoted, filtered or exported and nothing but the style sheet and
\* the error message is drawn; when it has stopped the error is shown.  A run
\* with the three required sheets never stops there, whether or not the
\* optional sheets exist.
C4_MissingSheetHalts ==
    /\ pc # "start" =>
          /\ dfs.product.ok <=> "Product" \in xl
          /\ dfs.component.ok <=> "Component" \in xl
          /\ dfs.warehouse.ok <=> "Warehouse, Salesarea" \in xl
          /\ dfs.customer.ok <=> "Customer" \in xl
          /\ dfs.product_warehouse.ok <=> "Product - Warehouse" \in xl
    /\ ~(RequiredSheets \subseteq xl) =>
          /\ pc \in {"start", "loaded", "stopped"}
          /\ prod_agg = <<>> /\ comp_agg = <<>> /\ vitc_obsol = <<>>
          /\ inbound = <<>> /\ outbound = <<>> /\ ppa = <<>>
          /\ weeks_pivot = EmptyPivot /\ avail_pivot = EmptyPivot
          /\ overview = <<>> /\ ov = <<>> /\ tidy = <<>>
          /\ rendered \subseteq {"css", "error"}
          /\ pc = "stopped" => "error" \in rendered
    /\ RequiredSheets \subseteq xl => pc # "stopped" /\ "error" \notin rendered

\* the script has stopped on a workbook that has Product but no Component
C4_Witness ==
    /\ pc = "stopped"
    /\ "Product" \in xl
    /\ "Component" \notin xl

\* C6: every Product round has its overview row; in the row of a round that
\* Component has no row for, the four component fields are missing; in the
\* row of a round without a raw-materials (finished-goods) Warehouse row,
\* inbound_util (outbound_util) is missing; the Product fields of every row
\* are those of prod_agg and ppa for that round.  With Product rounds 1-3
\* (service 0.90, 0.92, 0.95) and Component rounds 1-2 (availability 0.88,
\* 0.91) the overview has 3 rows, round 3 has no component availability and
\* rounds 1-2 show 90, 92 and 88, 91 as percentages.
C6_MissingDomainIsAbsent ==
    HasOverview =>
        /\ \A r \in RoundsOf(ProductSheet) : RowsOfRound(overview, r) # {}
        /\ \A i \in 1..Len(overview) :
               LET row == overview[i]
                   r == overview[i]["round"]
               IN  /\ r \notin RoundsOf(ComponentSheet) =>
                          \A c \in comp_agg_columns : isna(row[c])
                   /\ r \notin RoundsOf(Filter(WarehouseSheet, "warehouse",
                                               <<"raw", "materials">>)) =>
                          isna(row["inbound_util"])
                   /\ r \notin RoundsOf(Filter(WarehouseSheet, "warehouse",
                                               <<"finished", "goods">>)) =>
                          isna(row["outbound_util"])
                   /\ \A j \in RowsOfRound(prod_agg, r) :
                          \A c \in prod_agg_columns : row[c] = prod_agg[j][c]
                   /\ \A j \in RowsOfRound(ppa, r) : row["ppa"] = ppa[j]["ppa"]
        /\ (ProductSheet = ScenarioProduct /\ ComponentSheet = ScenarioComponent) =>
               /\ Len(overview) = 3
               /\ RoundColumn(overview) = <<1, 2, 3>>
               /\ isna(overview[3]["component_availability_pct_avg"])
               /\ ScalePct(overview[1]["avg_service_pct"]) = <<90, 1>>
               /\ ScalePct(overview[2]["avg_service_pct"]) = <<92, 1>>
               /\ ScalePct(overview[1]["component_availability_pct_avg"]) = <<88, 1>>
               /\ ScalePct(overview[2]["component_availability_pct_avg"]) = <<91, 1>>

\* the scenario's overview: round 3 is in Product, not in Component, and has
\* no raw-materials or finished-goods row either
C6_Witness ==
    /\ pc = "joined"
    /\ ProductSheet = ScenarioProduct
    /\ ComponentSheet = ScenarioComponent
    /\ 3 \notin RoundsOf(inbound)
    /\ 3 \notin RoundsOf(outbound)
    /\ Len(overview) = 3

\* the mean of the cells that carry a value, NaN when none does
MeanOfPresent(cells) ==
    LET present == SelectSeq(cells, LAMBDA x : ~isna(x))
        total == SumCells(present)
    IN  IF Len(present) = 0 THEN NA
        ELSE Rat(total[1], total[2] * Len(present))

\* C7: every mean field of prod_agg, comp_agg, inbound, outbound and ppa is,
\* for its round, the mean over the rows of that round that carry a value
\* for the source field; rows with a missing value count neither in the sum
\* nor in the number of rows ([10, missing, 20] gives 15).
C7_MeanSkipsMissing ==
    /\ Mean(<<<<10, 1>>, NA, <<20, 1>>>>) = <<15, 1>>
    /\ Aggregated =>
        LET raw == Filter(WarehouseSheet, "warehouse", <<"raw", "materials">>)
            fin == Filter(WarehouseSheet, "warehouse", <<"finished", "goods">>)
            P(r, col) == MeanOfPresent(Group(ProductSheet, r, col))
            C(r, col) == MeanOfPresent(Group(ComponentSheet, r, col))
        IN  /\ RoundsOf(prod_agg) = RoundsOf(ProductSheet)
            /\ RoundsOf(comp_agg) = RoundsOf(ComponentSheet)
            /\ RoundsOf(inbound) = RoundsOf(raw)
            /\ RoundsOf(outbound) = RoundsOf(fin)
            /\ RoundsOf(ppa) = RoundsOf(ProductSheet)
            /\ \A i \in 1..Len(prod_agg) :
                   LET a == prod_agg[i] IN
                   /\ a["avg_service_pct"] = P(a["round"], "service_level_(pieces)")
                   /\ a["fg_stock_weeks_avg"] = P(a["round"], "stock_(weeks)")
                   /\ a["mape_pct"] = P(a["round"], "forecast_error_(mape)")
                   /\ a["product_obsol_pct_avg"] = P(a["round"], "obsoletes_(%)")
            /\ \A i \in 1..Len(comp_agg) :
                   LET a == comp_agg[i] IN
                   /\ a["component_availability_pct_avg"] =
                          C(a["round"], "component_availability_(%)")
                   /\ a["component_stock_weeks_avg"] = C(a["round"], "stock_(weeks)")
                   /\ a["component_obsolescence_pct_avg"] = C(a["round"], "obsoletes_(%)")
                   /\ a["component_delivery_reliability_pct_avg"] =
                          C(a["round"], "delivery_reliability_(%)")
            /\ \A i \in 1..Len(inbound) :
                   inbound[i]["inbound_util"] =
                       MeanOfPresent(Group(raw, inbound[i]["round"], "cube_utilization_(%)"))
            /\ \A i \in 1..Len(outbound) :
                   outbound[i]["outbound_util"] =
                       MeanOfPresent(Group(fin, outbound[i]["round"], "cube_utilization_(%)"))
            /\ \A i \in 1..Len(ppa) :
                   ppa[i]["ppa"] =
                       MeanOfPresent(Group(ProductSheet, ppa[i]["round"],
                                           "production_plan_adherence_(%)"))

\* a column's cells of one round hold a missing value and two values
MixedCells(cells) ==
    /\ \E k \in 1..Len(cells) : isna(cells[k])
    /\ Cardinality({k \in 1..Len(cells) : ~isna(cells[k])}) >= 2

\* the aggregates are computed and some round has a missing value next to
\* two values in the service level, in the component availability and in
\* the raw-materials cube utilisation
C7_Witness ==
    /\ pc = "aggregated"
    /\ \E r \in Rounds :
           /\ MixedCells(Group(ProductSheet, r, "service_level_(pieces)"))
           /\ MixedCells(Group(ComponentSheet, r, "component_availability_(%)"))
           /\ MixedCells(Group(Filter(WarehouseSheet, "warehouse",
                                      <<"raw", "materials">>),
                               r, "cube_utilization_(%)"))

\* C8: filtering and the Data Explorer leave the data as it was: the
\* overview stays the join of the aggregates, ov stays the slice of the
\* overview the slider selected (its percentage fields are the overview's
\* fractions), and tidy alone holds the values times 100 rounded to two
\* decimals.
C8_DisplayDoesNotFeedBack ==
    /\ HasOverview =>
           overview = Overview(RoundsDf(prod_agg), prod_agg, comp_agg,
                               inbound, outbound, ppa)
    /\ HasView => ov = RangeFilter(overview, sel[1], sel[2])
    /\ pc = "done" =>
           /\ Len(tidy) = Len(ov)
           /\ \A i \in 1..Len(ov) :
                  /\ \A c \in pct_cols : tidy[i][c] = ScalePct(ov[i][c])
                  /\ \A c \in show_cols \ pct_cols : tidy[i][c] = ov[i][c]

\* the export was built from a proper slice of the overview, and a
\* percentage of it was both rescaled and rounded
C8_Witness ==
    /\ pc = "done"
    /\ Len(ov) < Len(overview)
    /\ \E i \in 1..Len(ov) : \E c \in pct_cols :
           /\ ~isna(ov[i][c])
           /\ tidy[i][c] # ov[i][c]
           /\ tidy[i][c] # Rat(ov[i][c][1] * 100, ov[i][c][2])

\* the label without its leading and trailing whitespace
Trimmed(lbl) ==
    LET inner == {i \in 1..Len(lbl) : lbl[i] \notin Whitespace}
    IN  IF inner = {} THEN <<>> ELSE SubSeq(lbl, SetMin(inner), SetMax(inner))

\* the number of maximal runs of whitespace in a text
WhitespaceRuns(t) ==
    Cardinality({i \in 1..Len(t) :
                    t[i] \in Whitespace /\ (i = 1 \/ t[i - 1] \notin Whitespace)})

Count(t, ch) == Cardinality({i \in 1..Len(t) : t[i] = ch})

\* C2: the identifier norm gives a label is lowercase, holds no whitespace
\* (leading, trailing or inside) and has exactly one "_" for each run of
\* whitespace inside the label, whatever the length of the run.
C2_NormCollapsesWhitespace ==
    \A k \in 1..Len(columns) :
        /\ \A i \in 1..Len(columns[k]) :
               columns[k][i] \notin Whitespace \cup {"A", "B"}
        /\ Count(columns[k], "_") = WhitespaceRuns(Trimmed(label))

Present(cells) == \E k \in 1..Len(cells) : ~isna(cells[k])

\* C3: in every row of prod_agg, cogs is realized_revenue minus
\* gross_margin_per_week when some Product row of the round has a value for
\* demand_per_week_(value) and some has one for gross_margin_per_week, and
\* cogs is missing otherwise.
C3_CogsAbsentWhenInputAbsent ==
    Aggregated =>
        \A i \in 1..Len(prod_agg) :
            LET a == prod_agg[i]
                dm == Group(ProductSheet, a["round"], "demand_per_week_(value)")
                gm == Group(ProductSheet, a["round"], "gross_margin_per_week")
            IN  IF Present(dm) /\ Present(gm)
                THEN /\ ~isna(a["cogs"])
                     /\ a["cogs"] = Sub(a["realized_revenue"],
                                        a["gross_margin_per_week"])
                ELSE isna(a["cogs"])

ComponentsOf(df) == {df[i]["component"] : i \in 1..Len(df)}

PivotCovers(pv, df) ==
    /\ Range(pv.index) = RoundsOf(df)
    /\ Range(pv.columns) = ComponentsOf(df)
    /\ \A r \in Range(pv.index) : \A c \in Range(pv.columns) :
           (\A i \in 1..Len(df) : ~(df[i]["round"] = r /\ df[i]["component"] = c))
               => isna(pv.cell[<<r, c>>])

\* C5: the rows of weeks_pivot and of avail_pivot are the distinct rounds of
\* the Component sheet and their columns its distinct component names, also
\* when a component or a round has no value of the metric; a (round,
\* component) pair without a row has a missing cell.
C5_PivotRowsAndColumns ==
    Aggregated =>
        /\ PivotCovers(weeks_pivot, ComponentSheet)
        /\ PivotCovers(avail_pivot, ComponentSheet)

\* C9: when Product has a round, every range the slider can select leaves a
\* non-empty ov, the latest-round lookup does not fail, and latest is the
\* largest Product round in the range.
C9_FilteredViewNonEmpty ==
    RoundsOf(ProductSheet) # {} =>
        /\ HasView => Len(ov) > 0
        /\ exc # "ValueError"
        /\ pc \in {"latest", "top", "tabs", "rest", "done"} =>
               latest = SetMax({r \in RoundsOf(ProductSheet) :
                                   sel[1] <= r /\ r <= sel[2]})

\* C10: when weeks_pivot is not empty, each of its first three component
\* columns is a column of avail_pivot, so the availability tabs never read a
\* column that is not there.
C10_TabsColumnsExist ==
    /\ (Aggregated /\ ~PivotEmpty(weeks_pivot)) =>
           Range(FirstThree(weeks_pivot.columns)) \subseteq Range(avail_pivot.columns)
    /\ exc # "KeyError"

====
